---- MODULE Spec2Model ----
(***************************************************************************)
(* Model of dragknife-repath: the classifier (DragknifePath::from_gcode,   *)
(* Command::from_gcode) and the rewriter (DragknifePath::to_fixed_gcode,   *)
(* Command::to_fixed_gcode, create_swivel_path,                            *)
(* add_misc_args_and_update_settings) of src/src/lib.rs, over the types of *)
(* src/src/types.rs and the vector algebra of src/src/vec3.rs.             *)
(*                                                                         *)
(* Numbers.  An f32 length, coordinate or feedrate is a fixed-point        *)
(* integer counting 1/Scale units; products and quotients round to the     *)
(* nearest representable value, as f32 arithmetic rounds to its own        *)
(* resolution.  An f32 angle (radians in the code) is a whole number of    *)
(* degrees, so PI is 180 and FRAC_PI_2 is 90.  Option<f32> is a record     *)
(* [some, val].                                                            *)
(***************************************************************************)
EXTENDS Integers, Sequences, FiniteSets, TLC

\* ------------------------------------------------------------------ bounds

\* Longest input program fed to DragknifePath::from_gcode.
MaxLen == 3

\* ------------------------------------------------------------- f32 numbers

\* Fixed-point resolution of the f32 values: 1 unit = 1/Scale.
Scale == 100

PI == 180
FRAC_PI_2 == 90
TAU == 360
\* f32::EPSILON (1.19e-7) is below the model's resolution.
EPSILON == 0

Abs(a) == IF a < 0 THEN -a ELSE a

\* a / b rounded to the nearest integer (b > 0), halves upward.
RoundDiv(a, b) == (2 * a + b) \div (2 * b)

\* f32 multiplication and division of two fixed-point values.
FMul(a, b) == RoundDiv(a * b, Scale)
FDiv(a, b) == IF b < 0 THEN RoundDiv((-a) * Scale, -b) ELSE RoundDiv(a * Scale, b)

None == [some |-> FALSE, val |-> 0]
Some(v) == [some |-> TRUE, val |-> v]

\* Integer square root, rounded to nearest, by bisection on [lo, hi].
RECURSIVE SqrtSearch(_, _, _)
SqrtSearch(n, lo, hi) ==
    IF lo >= hi THEN lo
    ELSE LET mid == (lo + hi + 1) \div 2
         IN IF mid * mid <= n THEN SqrtSearch(n, mid, hi) ELSE SqrtSearch(n, lo, mid - 1)

\* f32::sqrt of a non-negative value.
Sqrt(n) ==
    LET r == SqrtSearch(n, 0, 40000)
    IN IF n - r * r > r THEN r + 1 ELSE r

\* 1000 * sin(d degrees) for d in 0..90 (index d + 1).
SinTable ==
    << 0, 17, 35, 52, 70, 87, 105, 122, 139, 156, 174, 191, 208, 225, 242,
       259, 276, 292, 309, 326, 342, 358, 375, 391, 407, 423, 438, 454, 469,
       485, 500, 515, 530, 545, 559, 574, 588, 602, 616, 629, 643, 656, 669,
       682, 695, 707, 719, 731, 743, 755, 766, 777, 788, 799, 809, 819, 829,
       839, 848, 857, 866, 875, 883, 891, 899, 906, 914, 921, 927, 934, 940,
       946, 951, 956, 961, 966, 970, 974, 978, 982, 985, 988, 990, 993, 995,
       996, 998, 999, 999, 1000, 1000 >>

\* 1000 * sin and 1000 * cos of any whole angle.
Sin1000(angle) ==
    LET a == angle % 360
    IN IF a <= 90 THEN SinTable[a + 1]
       ELSE IF a <= 180 THEN SinTable[180 - a + 1]
       ELSE IF a <= 270 THEN -SinTable[a - 180 + 1]
       ELSE -SinTable[360 - a + 1]

Cos1000(angle) == Sin1000(angle + 90)

\* f32::sin and f32::cos as fixed-point values.
Sin(angle) == RoundDiv(Sin1000(angle) * Scale, 1000)
Cos(angle) == RoundDiv(Cos1000(angle) * Scale, 1000)

\* The greatest t of lo..hi with tan(t) <= num / den (lo satisfies it).
RECURSIVE AtanSearch(_, _, _, _)
AtanSearch(num, den, lo, hi) ==
    IF lo >= hi THEN lo
    ELSE LET mid == (lo + hi + 1) \div 2
         IN IF den * Sin1000(mid) <= num * Cos1000(mid)
            THEN AtanSearch(num, den, mid, hi)
            ELSE AtanSearch(num, den, lo, mid - 1)

\* atan(num / den) in degrees for 0 <= num <= den, den > 0: the angle of 0..45
\* whose tangent is nearest.
AtanRatio(num, den) ==
    LET t == AtanSearch(num, den, 0, 45)
        err(u) == Abs(num * Cos1000(u) - den * Sin1000(u))
    IN IF t < 45 /\ err(t + 1) < err(t) THEN t + 1 ELSE t

\* f32::atan2(y, x), in (-180, 180].
Atan2(y, x) ==
    IF x = 0 /\ y = 0 THEN 0
    ELSE LET ax == Abs(x)
             ay == Abs(y)
             base == IF ay <= ax THEN AtanRatio(ay, ax) ELSE 90 - AtanRatio(ax, ay)
         IN IF x >= 0
            THEN (IF y >= 0 THEN base ELSE -base)
            ELSE (IF y >= 0 THEN 180 - base ELSE base - 180)

\* ---------------------------------------------------------------- G-code
\* A GCode of the gcode crate: mnemonic, major number, arguments <<letter, value>>.

GCode(mn, num, args) == [mn |-> mn, num |-> num, args |-> args]

Word(letter, value) == <<letter, value>>

HasArg(gcode, letter) == \E i \in 1..Len(gcode.args) : gcode.args[i][1] = letter

\* GCode::value_for: the value of the first argument with the letter.
value_for(gcode, letter) ==
    IF HasArg(gcode, letter)
    THEN LET i == CHOOSE j \in 1..Len(gcode.args) :
                      /\ gcode.args[j][1] = letter
                      /\ \A m \in 1..(j - 1) : gcode.args[m][1] # letter
         IN Some(gcode.args[i][2])
    ELSE None

with_argument(gcode, word) == [gcode EXCEPT !.args = Append(@, word)]

\* ------------------------------------------------------------------ types

main_name(axis) == axis
center_name(axis) == CASE axis = "X" -> "I" [] axis = "Y" -> "J" [] axis = "Z" -> "K"

axis_1(plane) == CASE plane = "XY" -> "X" [] plane = "ZX" -> "Z" [] plane = "YZ" -> "Y"
axis_2(plane) == CASE plane = "XY" -> "Y" [] plane = "ZX" -> "X" [] plane = "YZ" -> "Z"
axis_3(plane) == CASE plane = "XY" -> "Z" [] plane = "ZX" -> "Y" [] plane = "YZ" -> "X"

\* GCodeState::default(): feedrate 3000.
DefaultFeedrate == 3000

GCodeState_default ==
    [unit |-> "Millimeters", plane |-> "XY", positioning |-> "Absolute",
     feedrate |-> DefaultFeedrate * Scale]

\* GCodeState::unit_factor: 1.0 for millimeters, 2.54 for inches.
unit_factor(settings) ==
    IF settings.unit = "Millimeters" THEN Scale ELSE (254 * Scale) \div 100

\* ------------------------------------------------------------------- vec3

Vec3(x, y, z) == [x |-> x, y |-> y, z |-> z]
Vec3_zero == Vec3(0, 0, 0)

VAdd(a, b) == Vec3(a.x + b.x, a.y + b.y, a.z + b.z)
VSub(a, b) == Vec3(a.x - b.x, a.y - b.y, a.z - b.z)
VMul(a, s) == Vec3(FMul(a.x, s), FMul(a.y, s), FMul(a.z, s))
VDiv(a, s) == Vec3(FDiv(a.x, s), FDiv(a.y, s), FDiv(a.z, s))

from_2d(a1, a2, plane) ==
    CASE plane = "XY" -> Vec3(a1, a2, 0)
      [] plane = "ZX" -> Vec3(a2, 0, a1)
      [] plane = "YZ" -> Vec3(0, a1, a2)

unit_angle(angle, plane) == from_2d(Cos(angle), Sin(angle), plane)

coords_for_plane(v, plane) ==
    CASE plane = "XY" -> <<v.x, v.y>>
      [] plane = "ZX" -> <<v.z, v.x>>
      [] plane = "YZ" -> <<v.y, v.z>>

third_coord(v, plane) ==
    CASE plane = "XY" -> v.z
      [] plane = "ZX" -> v.y
      [] plane = "YZ" -> v.x

project_plane(v, plane) ==
    CASE plane = "XY" -> [v EXCEPT !.z = 0]
      [] plane = "ZX" -> [v EXCEPT !.y = 0]
      [] plane = "YZ" -> [v EXCEPT !.x = 0]

angle_to(a, b, plane) ==
    LET ca == coords_for_plane(a, plane)
        cb == coords_for_plane(b, plane)
    IN Atan2(cb[2] - ca[2], cb[1] - ca[1])

magnitude(v) == Sqrt(v.x * v.x + v.y * v.y + v.z * v.z)

normalized(v) == IF magnitude(v) = 0 THEN Vec3_zero ELSE VDiv(v, magnitude(v))

\* ------------------------------------------------------- types (continued)

\* As get_target, reading every command as absolute.
get_target_absolute(settings, pos, gcode) ==
    LET unit == unit_factor(settings)
        vx == value_for(gcode, main_name("X"))
        vy == value_for(gcode, main_name("Y"))
        vz == value_for(gcode, main_name("Z"))
    IN Vec3(IF vx.some THEN FMul(vx.val, unit) ELSE pos.x,
            IF vy.some THEN FMul(vy.val, unit) ELSE pos.y,
            IF vz.some THEN FMul(vz.val, unit) ELSE pos.z)

\* GCodeState::get_target: the X/Y/Z of the command, scaled by the unit,
\* replace (absolute) or are added to (relative) the coordinates of pos.
get_target(settings, pos, gcode) ==
    LET unit == unit_factor(settings)
        vx == value_for(gcode, main_name("X"))
        vy == value_for(gcode, main_name("Y"))
        vz == value_for(gcode, main_name("Z"))
    IN IF settings.positioning = "Absolute"
       THEN Vec3(IF vx.some THEN FMul(vx.val, unit) ELSE pos.x,
                 IF vy.some THEN FMul(vy.val, unit) ELSE pos.y,
                 IF vz.some THEN FMul(vz.val, unit) ELSE pos.z)
       ELSE Vec3(pos.x + (IF vx.some THEN FMul(vx.val, unit) ELSE 0),
                 pos.y + (IF vy.some THEN FMul(vy.val, unit) ELSE 0),
                 pos.z + (IF vz.some THEN FMul(vz.val, unit) ELSE 0))

get_center_offset(settings, gcode) ==
    LET unit == unit_factor(settings)
        vx == value_for(gcode, center_name("X"))
        vy == value_for(gcode, center_name("Y"))
        vz == value_for(gcode, center_name("Z"))
    IN Vec3(IF vx.some THEN FMul(vx.val, unit) ELSE 0,
            IF vy.some THEN FMul(vy.val, unit) ELSE 0,
            IF vz.some THEN FMul(vz.val, unit) ELSE 0)

AbsoluteHeight(h) == [kind |-> "AbsoluteHeight", h |-> h]
RelativeHeight(h) == [kind |-> "RelativeHeight", h |-> h]

\* As calcute_height, treating every lift as relative.
calcute_height_relative(lift_config, from) == from + lift_config.h

\* LiftConfig::calcute_height
calcute_height(lift_config, from) ==
    IF lift_config.kind = "AbsoluteHeight" THEN lift_config.h ELSE from + lift_config.h

DragknifeConfig(knife_offset, lift_config, sharp_angle_threshold, swivel_feedrate) ==
    [knife_offset |-> knife_offset, lift_config |-> lift_config,
     sharp_angle_threshold |-> sharp_angle_threshold,
     swivel_feedrate |-> swivel_feedrate]

\* #[derive(Default)] of DragknifeConfig, with LiftConfig::default().
DragknifeConfig_default == DragknifeConfig(0, RelativeHeight(Scale), 0, 0)

DragknifeState_default == [next_feedrate |-> None]

\* The Command enum.  One record shape for all five variants; a field a
\* variant does not have holds a fixed filler (Other's pos is kept in start).
Command(kind, original, start, end, center, direction, angle, sa, ea) ==
    [kind |-> kind, original |-> original, start |-> start, end |-> end,
     center |-> center, direction |-> direction, angle |-> angle,
     start_angle |-> sa, end_angle |-> ea]

OtherCommand(original, pos, angle) ==
    Command("Other", original, pos, pos, Vec3_zero, "-", angle, 0, 0)
RapidMovement(original, start, end) ==
    Command("Rapid", original, start, end, Vec3_zero, "-", None, 0, 0)
LinearMovement(original, start, end, angle) ==
    Command("Linear", original, start, end, Vec3_zero, "-", angle, 0, 0)
ArcMovement(original, direction, start, end, center, sa, ea) ==
    Command("Arc", original, start, end, center, direction, None, sa, ea)
HomeMovement(original, start) ==
    Command("Home", original, start, start, Vec3_zero, "-", None, 0, 0)

\* OtherCommand::update_settings
OtherCommand_update_settings(command, settings) ==
    LET n == command.original.num
    IN CASE n = 17 -> [settings EXCEPT !.plane = "XY"]
         [] n = 18 -> [settings EXCEPT !.plane = "ZX"]
         [] n = 19 -> [settings EXCEPT !.plane = "YZ"]
         [] n = 20 -> [settings EXCEPT !.unit = "Inches"]
         [] n = 21 -> [settings EXCEPT !.unit = "Millimeters"]
         [] n = 90 -> [settings EXCEPT !.positioning = "Absolute"]
         [] n = 91 -> [settings EXCEPT !.positioning = "Relative"]
         [] OTHER -> settings

\* As Command_update_settings, with the returned flag always false.
Command_update_settings_unchanged(command, settings) ==
    IF command.kind = "Other"
    THEN [settings |-> OtherCommand_update_settings(command, settings), changed |-> FALSE]
    ELSE LET f == value_for(command.original, "F")
         IN IF f.some
            THEN [settings |-> [settings EXCEPT !.feedrate = FMul(f.val, unit_factor(settings))],
                  changed |-> FALSE]
            ELSE [settings |-> settings, changed |-> FALSE]

\* Command::update_settings: the settings after the call and the returned
\* flag (true only for a movement whose original carries F).
Command_update_settings(command, settings) ==
    IF command.kind = "Other"
    THEN [settings |-> OtherCommand_update_settings(command, settings), changed |-> FALSE]
    ELSE LET f == value_for(command.original, "F")
         IN IF f.some
            THEN [settings |-> [settings EXCEPT !.feedrate = FMul(f.val, unit_factor(settings))],
                  changed |-> TRUE]
            ELSE [settings |-> settings, changed |-> FALSE]

\* impl Movement for Command
start_pos(command) == command.start

\* As end_pos, with a Home record ending where it started.
end_pos_of_start(command) == command.end

end_pos(command) ==
    IF command.kind = "Home" THEN Vec3_zero ELSE command.end

start_angle(command) ==
    CASE command.kind \in {"Other", "Linear"} -> command.angle
      [] command.kind = "Arc" -> Some(command.start_angle)
      [] OTHER -> None

end_angle(command) ==
    CASE command.kind \in {"Other", "Linear"} -> command.angle
      [] command.kind = "Arc" -> Some(command.end_angle)
      [] OTHER -> None

\* impl Movement for Option<&Command>, the option being the last element of
\* the vector built so far.
Option_end_pos(cmds) == IF cmds = <<>> THEN Vec3_zero ELSE end_pos(cmds[Len(cmds)])
\* As Option_end_angle, with no angle passed on.
Option_end_angle_none(cmds) == None

Option_end_angle(cmds) == IF cmds = <<>> THEN None ELSE end_angle(cmds[Len(cmds)])

\* ---------------------------------------------------------------- lib.rs

\* signed_angle: (a - b + PI).rem_euclid(TAU) - PI, in [-PI, PI).
signed_angle(a, b) == ((a - b + PI) % TAU) - PI

\* The two arc arms of Command::from_gcode (G2: sign = -1, G3: sign = +1).
ArcFromGcode(gcode, start, settings, direction, sign) ==
    LET target == get_target(settings, start, gcode)
        center_off == get_center_offset(settings, gcode)
        center == VAdd(start, center_off)
        sa == angle_to(center, start, settings.plane) + sign * FRAC_PI_2
        ea == angle_to(center, target, settings.plane) + sign * FRAC_PI_2
        radius == magnitude(project_plane(VSub(start, center), settings.plane))
        end == VAdd(VMul(normalized(VSub(target, center)), radius), center)
    IN ArcMovement(gcode, direction, start, end, center, sa, ea)

\* Command::from_gcode: the record of one input command, and the classifier's
\* settings after it.  cmds is the vector built so far (its last element is
\* prev_command).
Command_from_gcode(gcode, cmds, settings) ==
    LET start == Option_end_pos(cmds)
        other == OtherCommand(gcode, start, Option_end_angle(cmds))
    IN IF gcode.mn # "G"
       THEN [command |-> other, settings |-> settings]
       ELSE CASE gcode.num = 0 ->
                   [command |-> RapidMovement(gcode, start, get_target(settings, start, gcode)),
                    settings |-> settings]
              [] gcode.num = 1 ->
                   LET end == get_target(settings, start, gcode)
                       angle == IF magnitude(project_plane(VSub(start, end), settings.plane)) <= EPSILON
                                THEN Option_end_angle(cmds)
                                ELSE Some(angle_to(start, end, settings.plane))
                   IN [command |-> LinearMovement(gcode, start, end, angle),
                       settings |-> settings]
              [] gcode.num = 2 ->
                   [command |-> ArcFromGcode(gcode, start, settings, "CW", -1),
                    settings |-> settings]
              [] gcode.num = 3 ->
                   [command |-> ArcFromGcode(gcode, start, settings, "CCW", 1),
                    settings |-> settings]
              [] gcode.num = 28 ->
                   [command |-> HomeMovement(gcode, start), settings |-> settings]
              [] OTHER ->
                   [command |-> other,
                    settings |-> OtherCommand_update_settings(other, settings)]

\* As is_sharp, with the threshold itself counted as sharp.
is_sharp_inclusive(previous_angle, to, config) ==
    /\ previous_angle.some
    /\ to.some
    /\ Abs(signed_angle(previous_angle.val, to.val)) >= config.sharp_angle_threshold

\* The test of create_swivel_path: both angles are Some and the signed angle
\* between them exceeds the threshold.
is_sharp(previous_angle, to, config) ==
    /\ previous_angle.some
    /\ to.some
    /\ Abs(signed_angle(previous_angle.val, to.val)) > config.sharp_angle_threshold

\* create_swivel_path: the swivel commands (none, or lift, arc, plunge) and the
\* rewriter state after the call.
create_swivel_path(previous_angle, next, settings, state, config) ==
    LET to == start_angle(next)
    IN IF is_sharp(previous_angle, to, config)
       THEN LET from_angle == previous_angle.val
                to_angle == to.val
                signed == signed_angle(from_angle, to_angle)
                start_height == third_coord(start_pos(next), settings.plane)
                lift == with_argument(
                            with_argument(GCode("G", 1, <<>>),
                                Word(main_name(axis_3(settings.plane)),
                                     calcute_height(config.lift_config, start_height))),
                            Word("F", FDiv(config.swivel_feedrate, unit_factor(settings))))
                center_offset == coords_for_plane(
                                     VMul(unit_angle(from_angle + PI, settings.plane),
                                          config.knife_offset),
                                     settings.plane)
                target == coords_for_plane(
                              VAdd(VMul(unit_angle(to_angle, settings.plane), config.knife_offset),
                                   start_pos(next)),
                              settings.plane)
                arc == GCode("G", IF signed > 0 THEN 2 ELSE 3,
                             << Word(main_name(axis_1(settings.plane)), target[1]),
                                Word(main_name(axis_2(settings.plane)), target[2]),
                                Word(center_name(axis_1(settings.plane)), center_offset[1]),
                                Word(center_name(axis_2(settings.plane)), center_offset[2]) >>)
                plunge == GCode("G", 1, << Word(main_name(axis_3(settings.plane)), start_height) >>)
            IN [out |-> <<lift, arc, plunge>>,
                state |-> [state EXCEPT !.next_feedrate =
                              Some(FDiv(settings.feedrate, unit_factor(settings)))]]
       ELSE [out |-> <<>>, state |-> state]

\* The arguments of a sequence whose letter is not in the excluded set.
RECURSIVE MiscArgs(_, _)
MiscArgs(args, excluded) ==
    IF args = <<>> THEN <<>>
    ELSE IF args[1][1] \in excluded
         THEN MiscArgs(Tail(args), excluded)
         ELSE <<args[1]>> \o MiscArgs(Tail(args), excluded)

\* As ExcludedLetters, with the out-of-plane axis letter excluded too.
ExcludedLetters_with_axis_3(plane) ==
    { main_name(axis_1(plane)), main_name(axis_2(plane)), main_name(axis_3(plane)),
      center_name(axis_1(plane)), center_name(axis_2(plane)), "F" }

\* The letters add_misc_args_and_update_settings does not copy.
ExcludedLetters(plane) ==
    { main_name(axis_1(plane)), main_name(axis_2(plane)),
      center_name(axis_1(plane)), center_name(axis_2(plane)), "F" }

\* As add_misc_args_and_update_settings, with next_feedrate left as it is.
add_misc_args_keeping_next_feedrate(new_gcode, command, state, settings) ==
    LET upd == Command_update_settings(command, settings)
        s2 == upd.settings
        withF == IF upd.changed
                 THEN with_argument(new_gcode, Word("F", FDiv(s2.feedrate, unit_factor(s2))))
                 ELSE IF state.next_feedrate.some
                      THEN with_argument(new_gcode,
                               Word("F", FDiv(state.next_feedrate.val, unit_factor(s2))))
                      ELSE new_gcode
    IN [gcode |-> [withF EXCEPT !.args =
                      @ \o MiscArgs(command.original.args, ExcludedLetters(s2.plane))],
        state |-> state,
        settings |-> s2]

\* As add_misc_args_and_update_settings, with no F pushed.
add_misc_args_without_feedrate(new_gcode, command, state, settings) ==
    LET upd == Command_update_settings(command, settings)
        s2 == upd.settings
        st2 == IF upd.changed \/ state.next_feedrate.some
               THEN [state EXCEPT !.next_feedrate = None]
               ELSE state
    IN [gcode |-> [new_gcode EXCEPT !.args =
                      @ \o MiscArgs(command.original.args, ExcludedLetters(s2.plane))],
        state |-> st2,
        settings |-> s2]

\* add_misc_args_and_update_settings: the finished command and the rewriter
\* state and settings after the call.
add_misc_args_and_update_settings(new_gcode, command, state, settings) ==
    LET upd == Command_update_settings(command, settings)
        s2 == upd.settings
        withF == IF upd.changed
                 THEN with_argument(new_gcode, Word("F", FDiv(s2.feedrate, unit_factor(s2))))
                 ELSE IF state.next_feedrate.some
                      THEN with_argument(new_gcode,
                               Word("F", FDiv(state.next_feedrate.val, unit_factor(s2))))
                      ELSE new_gcode
        st2 == IF upd.changed \/ state.next_feedrate.some
               THEN [state EXCEPT !.next_feedrate = None]
               ELSE state
    IN [gcode |-> [withF EXCEPT !.args =
                      @ \o MiscArgs(command.original.args, ExcludedLetters(s2.plane))],
        state |-> st2,
        settings |-> s2]

\* Command::to_fixed_gcode, the Other arm.
FixOther(command, settings, state) ==
    IF command.original.num = 91
    THEN [out |-> <<>>, settings |-> settings, state |-> state]
    ELSE [out |-> <<command.original>>,
          settings |-> OtherCommand_update_settings(command, settings),
          state |-> state]

\* As linear_target, with the offset applied only to a Linear that moves.
linear_target_moving_only(command, settings, config) ==
    IF command.angle.some /\ command.start # command.end
    THEN VAdd(command.end,
              VMul(unit_angle(command.angle.val, settings.plane), config.knife_offset))
    ELSE command.end

\* As linear_target, without the knife offset.
linear_target_no_offset(command, settings, config) == command.end

\* The offset target of the Linear arm: end + unit_angle(angle) * knife_offset
\* when the angle is Some, end otherwise.
linear_target(command, settings, config) ==
    IF command.angle.some
    THEN VAdd(command.end,
              VMul(unit_angle(command.angle.val, settings.plane), config.knife_offset))
    ELSE command.end

\* Command::to_fixed_gcode, the Linear arm.
FixLinear(command, previous_angle, settings, state, config) ==
    LET sw == create_swivel_path(previous_angle, command, settings, state, config)
        target == coords_for_plane(linear_target(command, settings, config), settings.plane)
        new == GCode("G", 1, << Word(main_name(axis_1(settings.plane)), target[1]),
                                Word(main_name(axis_2(settings.plane)), target[2]) >>)
        fin == add_misc_args_and_update_settings(new, command, sw.state, settings)
    IN [out |-> Append(sw.out, fin.gcode), settings |-> fin.settings, state |-> fin.state]

\* Command::to_fixed_gcode, the Arc arm.
FixArc(command, previous_angle, settings, state, config) ==
    LET sw == create_swivel_path(previous_angle, command, settings, state, config)
        new_start == VAdd(command.start,
                          VMul(unit_angle(command.start_angle, settings.plane),
                               config.knife_offset))
        new_end3 == VAdd(command.end,
                         VMul(unit_angle(command.end_angle, settings.plane),
                              config.knife_offset))
        new_end == coords_for_plane(new_end3, settings.plane)
        center_offset == coords_for_plane(VSub(command.center, new_start), settings.plane)
        new == GCode("G", IF command.direction = "CW" THEN 2 ELSE 3,
                     << Word(main_name(axis_1(settings.plane)), new_end[1]),
                        Word(main_name(axis_2(settings.plane)), new_end[2]),
                        Word(center_name(axis_1(settings.plane)), center_offset[1]),
                        Word(center_name(axis_2(settings.plane)), center_offset[2]) >>)
        fin == add_misc_args_and_update_settings(new, command, sw.state, settings)
    IN [out |-> Append(sw.out, fin.gcode), settings |-> fin.settings, state |-> fin.state]

\* Command::to_fixed_gcode, the Home and Rapid arms.
FixVerbatim(command, settings, state) ==
    [out |-> <<command.original>>, settings |-> settings, state |-> state]

\* Command::to_fixed_gcode: the emitted commands, and the settings and the
\* rewriter state after the call.
Command_to_fixed_gcode(command, previous_angle, settings, state, config) ==
    CASE command.kind = "Other" -> FixOther(command, settings, state)
      [] command.kind = "Linear" -> FixLinear(command, previous_angle, settings, state, config)
      [] command.kind = "Arc" -> FixArc(command, previous_angle, settings, state, config)
      [] OTHER -> FixVerbatim(command, settings, state)

\* ------------------------------------------------------------ the inputs

\* The commands an input program is drawn from (values in 1/Scale units):
\* a rapid, cuts, a pure depth move, a flat and a helical arc, home, the modal G-codes, a
\* pass-through G-code, and commands of the M and T mnemonics, some with the
\* major number of a modal G-code.
InputGCodes ==
    { GCode("G", 0, << Word("X", 0), Word("Y", 10 * Scale), Word("F", 800 * Scale) >>),
      GCode("G", 1, << Word("X", 10 * Scale), Word("Y", 0), Word("Z", -1 * Scale),
                       Word("F", 500 * Scale) >>),
      GCode("G", 1, << Word("X", 10 * Scale), Word("Y", 10 * Scale) >>),
      GCode("G", 1, << Word("X", 20 * Scale), Word("Y", 0) >>),
      GCode("G", 1, << Word("Z", -2 * Scale), Word("A", 5 * Scale) >>),
      GCode("G", 2, << Word("X", 10 * Scale), Word("Y", 10 * Scale),
                       Word("I", 10 * Scale), Word("J", 0), Word("F", 400 * Scale) >>),
      GCode("G", 3, << Word("X", 10 * Scale), Word("Y", 10 * Scale),
                       Word("Z", -2 * Scale), Word("I", 0), Word("J", 10 * Scale) >>),
      GCode("G", 28, <<>>),
      GCode("G", 18, <<>>), GCode("G", 20, <<>>),
      GCode("G", 90, <<>>), GCode("G", 91, <<>>),
      GCode("G", 54, <<>>),
      GCode("M", 3, << Word("S", 1000 * Scale) >>),
      GCode("M", 91, <<>>), GCode("M", 18, <<>>),
      GCode("T", 20, <<>>) }

\* The configurations a rewrite is run with: the front-end's default
\* (offset 1, relative lift 1, threshold 10 degrees, swivel feedrate 300) and
\* one with an absolute lift and a right-angle threshold.
Configs ==
    { DragknifeConfig(1 * Scale, RelativeHeight(1 * Scale), 10, 300 * Scale),
      DragknifeConfig(5 * Scale, AbsoluteHeight(1 * Scale), 90, 300 * Scale) }

\* -------------------------------------------------------------- the state

VARIABLES
    pc,               \* "from_gcode" while the path is built, "done" once rewritten
    commands,         \* DragknifePath.commands (from_gcode's output)
    path_settings,    \* from_gcode's local settings
    config,           \* to_fixed_gcode's config argument
    fixed,            \* to_fixed_gcode's result
    log               \* to_fixed_gcode's loop, one entry per iteration

vars == << pc, commands, path_settings, config, fixed, log >>

\* The locals of DragknifePath::to_fixed_gcode before its loop.
RewriteStart ==
    [fixed |-> <<>>, prev_angle |-> None, settings |-> GCodeState_default,
     dragknife_state |-> DragknifeState_default, log |-> <<>>]

\* One iteration of the loop of DragknifePath::to_fixed_gcode.  The log entry
\* keeps the command, what the call was given (previous_angle, settings,
\* state_before) and what it left (out, settings_after, state).
RewriteStep(loc, command, c) ==
    LET r == Command_to_fixed_gcode(command, loc.prev_angle, loc.settings,
                                    loc.dragknife_state, c)
    IN [fixed |-> loc.fixed \o r.out,
        prev_angle |-> end_angle(command),
        settings |-> r.settings,
        dragknife_state |-> r.state,
        log |-> Append(loc.log,
                       [command |-> command, out |-> r.out,
                        previous_angle |-> loc.prev_angle,
                        settings |-> loc.settings,
                        state_before |-> loc.dragknife_state,
                        settings_after |-> r.settings,
                        state |-> r.state])]

\* The loop of DragknifePath::to_fixed_gcode over cmds[i..].
RECURSIVE RewriteLoop(_, _, _, _)
RewriteLoop(loc, cmds, i, c) ==
    IF i > Len(cmds) THEN loc
    ELSE RewriteLoop(RewriteStep(loc, cmds[i], c), cmds, i + 1, c)

\* DragknifePath::from_gcode as a function of the whole input: the loop that
\* classifies each command against the vector built so far.
RECURSIVE from_gcode_loop(_, _, _)
from_gcode_loop(gcodes, cmds, settings) ==
    IF gcodes = <<>> THEN cmds
    ELSE LET r == Command_from_gcode(gcodes[1], cmds, settings)
         IN from_gcode_loop(Tail(gcodes), Append(cmds, r.command), r.settings)

from_gcode(gcodes) == from_gcode_loop(gcodes, <<>>, GCodeState_default)

\* DragknifePath::to_fixed_gcode as a function of the path and the config.
to_fixed_gcode(cmds, c) == RewriteLoop(RewriteStart, cmds, 1, c).fixed

Init ==
    /\ pc = "from_gcode"
    /\ commands = <<>>
    /\ path_settings = GCodeState_default
    /\ config = DragknifeConfig_default
    /\ fixed = <<>>
    /\ log = <<>>

\* One iteration of the loop of DragknifePath::from_gcode: the next input
\* command is classified and pushed.
FromGcodeStep(gcode) ==
    /\ pc = "from_gcode"
    /\ Len(commands) < MaxLen
    /\ LET r == Command_from_gcode(gcode, commands, path_settings)
       IN /\ commands' = Append(commands, r.command)
          /\ path_settings' = r.settings
    /\ UNCHANGED << pc, config, fixed, log >>

\* DragknifePath::to_fixed_gcode(config) on the finished path.
ToFixedGcode(c) ==
    /\ pc = "from_gcode"
    /\ pc' = "done"
    /\ config' = c
    /\ LET r == RewriteLoop(RewriteStart, commands, 1, c)
       IN /\ fixed' = r.fixed
          /\ log' = r.log
    /\ UNCHANGED << commands, path_settings >>

Next ==
    \/ \E gcode \in InputGCodes : FromGcodeStep(gcode)
    \/ \E c \in Configs : ToFixedGcode(c)

Spec == Init /\ [][Next]_vars

\* The input programs of G-mnemonic commands that stay in the XY plane and
\* hold no arc: rapids, linear cuts, home, G20, G90, G91, G54.
PlanarGCodes ==
    { g \in InputGCodes : g.mn = "G" /\ g.num \notin {2, 3, 18} }

NextPlanar ==
    \/ \E gcode \in PlanarGCodes : FromGcodeStep(gcode)
    \/ \E c \in Configs : ToFixedGcode(c)

SpecPlanar == Init /\ [][NextPlanar]_vars

\* -------------------------------------------------------------- the claims
\* The claims are about a finished rewrite: log[i] is the rewrite of
\* commands[i], its out the commands emitted for it (fixed is their
\* concatenation).

Done == pc = "done"

Records == 1..Len(log)

\* The Linear and Arc records: the cuts.
CutRecords == { i \in Records : commands[i].kind \in {"Linear", "Arc"} }

\* The last command emitted for a record: for a cut, its rewritten command.
EmittedCommand(i) == log[i].out[Len(log[i].out)]

\* A swivel sequence was emitted for the cut i: three commands before its own.
SwivelEmitted(i) == Len(log[i].out) = 4

\* The previous record's end angle.
PrevEndAngle(i) == IF i = 1 THEN None ELSE end_angle(commands[i - 1])

\* signed_delta(a, b) = ((a - b + pi) mod 2 pi) - pi, in degrees.
SignedDelta(a, b) == ((a - b + 180) % 360) - 180

\* Both angles are defined and |signed_delta| exceeds the threshold.
SharpCorner(i) ==
    LET p == PrevEndAngle(i)
        n == start_angle(commands[i])
    IN /\ p.some
       /\ n.some
       /\ Abs(SignedDelta(p.val, n.val)) > config.sharp_angle_threshold

\* No record before i is a cut, or the nearest record before i that is not
\* Other is a Rapid or a Home.
NoPriorTangent(i) ==
    LET before == { j \in 1..(i - 1) : commands[j].kind # "Other" }
    IN \/ before = {}
       \/ \E j \in before :
              /\ \A m \in before : m <= j
              /\ commands[j].kind \in {"Rapid", "Home"}

\* C1: a cut record gets a swivel sequence if and only if the previous
\* record's end angle and its own start angle are both defined and
\* |signed_delta(prev, next)| is strictly greater than sharp_angle_threshold;
\* otherwise only its own command is emitted.  In particular the first cut of a
\* program and a cut whose nearest preceding non-Other record is a Rapid or a
\* Home get none, and neither does a corner of exactly the threshold.
C1_SwivelIffSharp ==
    Done =>
        \A i \in CutRecords :
            /\ Len(log[i].out) \in {1, 4}
            /\ SwivelEmitted(i) <=> SharpCorner(i)
            /\ NoPriorTangent(i) => ~SwivelEmitted(i)

\* A rewrite with a swivel, a corner of exactly the threshold that got none,
\* and a cut after a Rapid or Home (or a first cut) with a defined start angle.
C1_Witness ==
    /\ Done
    /\ \E i \in CutRecords : SwivelEmitted(i)
    /\ \E i \in CutRecords :
           /\ PrevEndAngle(i).some
           /\ start_angle(commands[i]).some
           /\ Abs(SignedDelta(PrevEndAngle(i).val, start_angle(commands[i]).val))
                  = config.sharp_angle_threshold
           /\ ~SwivelEmitted(i)
    /\ \E i \in CutRecords :
           /\ NoPriorTangent(i)
           /\ start_angle(commands[i]).some
           /\ ~SwivelEmitted(i)

\* The three swivel commands the claim describes for the cut i: the lift to
\* lift_config applied to the start position's out-of-plane coordinate h with
\* F = swivel_feedrate / unit_factor, the arc (G2 if signed_delta > 0, else G3)
\* to start + knife_offset * unit_angle(next) around the centre offset
\* knife_offset * unit_angle(prev + pi), and the plunge back to h.
ExpectedSwivel(i) ==
    LET plane == log[i].settings.plane
        k == config.knife_offset
        start == coords_for_plane(commands[i].start, plane)
        h == third_coord(commands[i].start, plane)
        prev == PrevEndAngle(i).val
        next == start_angle(commands[i]).val
        lifted == IF config.lift_config.kind = "AbsoluteHeight"
                  THEN config.lift_config.h
                  ELSE h + config.lift_config.h
    IN << [mn |-> "G", num |-> 1,
           args |-> << <<axis_3(plane), lifted>>,
                       <<"F", FDiv(config.swivel_feedrate, unit_factor(log[i].settings))>> >>],
          [mn |-> "G", num |-> IF SignedDelta(prev, next) > 0 THEN 2 ELSE 3,
           args |-> << <<axis_1(plane), start[1] + FMul(Cos(next), k)>>,
                       <<axis_2(plane), start[2] + FMul(Sin(next), k)>>,
                       <<center_name(axis_1(plane)), FMul(Cos(prev + 180), k)>>,
                       <<center_name(axis_2(plane)), FMul(Sin(prev + 180), k)>> >>],
          [mn |-> "G", num |-> 1, args |-> << <<axis_3(plane), h>> >>] >>

\* The record's own command is the one that carries the in-plane target.
IsOwnCommand(i, g) ==
    /\ g.mn = "G"
    /\ g.num = (IF commands[i].kind = "Linear" THEN 1
                ELSE IF commands[i].direction = "CW" THEN 2 ELSE 3)
    /\ HasArg(g, axis_1(log[i].settings.plane))
    /\ HasArg(g, axis_2(log[i].settings.plane))

\* Records i - 1 and i cut the corner (0,0) -> (10,0) -> (10,10) in the XY
\* plane in millimeters, the first with F500, and the rewrite uses offset 1.
RightAngleCornerAt(i) ==
    /\ i > 1
    /\ commands[i - 1].kind = "Linear" /\ commands[i].kind = "Linear"
    /\ coords_for_plane(commands[i - 1].start, "XY") = <<0, 0>>
    /\ coords_for_plane(commands[i - 1].end, "XY") = <<10 * Scale, 0>>
    /\ coords_for_plane(commands[i].end, "XY") = <<10 * Scale, 10 * Scale>>
    /\ value_for(commands[i - 1].original, "F") = Some(500 * Scale)
    /\ ~HasArg(commands[i].original, "F")
    /\ MiscArgs(commands[i].original.args, {"X", "Y", "I", "J", "F"}) = <<>>
    /\ log[i].settings.plane = "XY"
    /\ log[i].settings.unit = "Millimeters"
    /\ config.knife_offset = 1 * Scale
    /\ config.sharp_angle_threshold < 90

\* C2: whenever a swivel fires, exactly three synthetic commands precede the
\* record's own rewritten command: lift, swivel arc, plunge, with the
\* arguments of ExpectedSwivel.  For the right-angle corner with offset 1 the
\* record's output is lift, G3 to (10,1) with centre offset (-1,0), plunge,
\* G1 X10 Y11 F500.
C2_SwivelSequence ==
    Done =>
        \A i \in CutRecords :
            /\ SwivelEmitted(i) =>
                   /\ SubSeq(log[i].out, 1, 3) = ExpectedSwivel(i)
                   /\ IsOwnCommand(i, log[i].out[4])
            /\ RightAngleCornerAt(i) =>
                   /\ Len(log[i].out) = 4
                   /\ log[i].out[1].num = 1
                   /\ log[i].out[2] =
                          [mn |-> "G", num |-> 3,
                           args |-> << <<"X", 10 * Scale>>, <<"Y", 1 * Scale>>,
                                       <<"I", -1 * Scale>>, <<"J", 0>> >>]
                   /\ log[i].out[3].num = 1
                   /\ log[i].out[4] =
                          [mn |-> "G", num |-> 1,
                           args |-> << <<"X", 10 * Scale>>, <<"Y", 11 * Scale>>,
                                       <<"F", 500 * Scale>> >>]

\* A rewrite of the right-angle corner that also holds a clockwise swivel,
\* and a counterclockwise one lifting from a start height other than 0.
C2_Witness ==
    /\ Done
    /\ \E i \in CutRecords : RightAngleCornerAt(i)
    /\ \E i \in CutRecords : SwivelEmitted(i) /\ log[i].out[2].num = 2
    /\ \E i \in CutRecords :
           /\ SwivelEmitted(i)
           /\ log[i].out[2].num = 3
           /\ third_coord(commands[i].start, log[i].settings.plane) # 0

\* C3: for every Linear record one G1 is emitted that carries the in-plane
\* target, and its axis_1/axis_2 arguments are the in-plane coordinates of
\* end + knife_offset * unit_angle(angle) when the angle is defined and of end
\* when it is not; a Linear that follows a Linear of the same defined angle is
\* emitted with no swivel before it.
C3_LinearOffsetTarget ==
    Done =>
        \A i \in Records :
            commands[i].kind = "Linear" =>
                LET plane == log[i].settings.plane
                    k == config.knife_offset
                    a == commands[i].angle
                    end == coords_for_plane(commands[i].end, plane)
                    g == EmittedCommand(i)
                IN /\ g.mn = "G" /\ g.num = 1
                   /\ Len(g.args) >= 2
                   /\ g.args[1] = <<axis_1(plane),
                                    end[1] + (IF a.some THEN FMul(Cos(a.val), k) ELSE 0)>>
                   /\ g.args[2] = <<axis_2(plane),
                                    end[2] + (IF a.some THEN FMul(Sin(a.val), k) ELSE 0)>>
                   /\ Cardinality({ n \in 1..Len(log[i].out) :
                                      /\ log[i].out[n].num = 1
                                      /\ \/ HasArg(log[i].out[n], axis_1(plane))
                                         \/ HasArg(log[i].out[n], axis_2(plane)) })
                          = 1
                   /\ ( /\ i > 1
                        /\ commands[i - 1].kind = "Linear"
                        /\ a.some
                        /\ commands[i - 1].angle = a )
                      => log[i].out = <<g>>

\* A rewrite with a Linear of undefined angle and two collinear cuts of a
\* defined angle, under a knife offset.
C3_Witness ==
    /\ Done
    /\ config.knife_offset > 0
    /\ \E i \in Records : commands[i].kind = "Linear" /\ ~commands[i].angle.some
    /\ \E i \in Records :
           /\ i > 1
           /\ commands[i].kind = "Linear" /\ commands[i - 1].kind = "Linear"
           /\ commands[i].angle.some
           /\ commands[i - 1].angle = commands[i].angle
           /\ commands[i].start # commands[i].end

\* ------------------------------------------------------ replay of the output
\* A machine that interprets the emitted program in absolute positioning from
\* (0,0,0): G20/G21 select the unit its numbers are read in, G0..G3 move the
\* controlled point to the X/Y/Z they carry, G28 moves it to the origin.

MachineStart == [pos |-> Vec3_zero, unit |-> Scale]

MachineStep(m, g) ==
    IF g.mn # "G" THEN m
    ELSE CASE g.num = 20 -> [m EXCEPT !.unit = (254 * Scale) \div 100]
           [] g.num = 21 -> [m EXCEPT !.unit = Scale]
           [] g.num = 28 -> [m EXCEPT !.pos = Vec3_zero]
           [] g.num \in 0..3 ->
                LET vx == value_for(g, "X")
                    vy == value_for(g, "Y")
                    vz == value_for(g, "Z")
                IN [m EXCEPT !.pos =
                       Vec3(IF vx.some THEN FMul(vx.val, m.unit) ELSE m.pos.x,
                            IF vy.some THEN FMul(vy.val, m.unit) ELSE m.pos.y,
                            IF vz.some THEN FMul(vz.val, m.unit) ELSE m.pos.z)]
           [] OTHER -> m

\* The machine after the first n commands of fixed.
RECURSIVE MachineAfter(_)
MachineAfter(n) ==
    IF n = 0 THEN MachineStart ELSE MachineStep(MachineAfter(n - 1), fixed[n])

\* The number of commands emitted for the records before i.
RECURSIVE EmittedBefore(_)
EmittedBefore(i) ==
    IF i = 1 THEN 0 ELSE EmittedBefore(i - 1) + Len(log[i - 1].out)

\* The place in fixed of the record's own command (the last emitted for it).
OwnIndex(i) == EmittedBefore(i) + Len(log[i].out)

\* The centre of the emitted arc as the machine sees it: the controlled point
\* just before the command plus the I/J/K it carries.
ReplayedCenter(i) ==
    LET m == MachineAfter(OwnIndex(i) - 1)
        g == fixed[OwnIndex(i)]
        vi == value_for(g, "I")
        vj == value_for(g, "J")
        vk == value_for(g, "K")
    IN VAdd(m.pos, Vec3(IF vi.some THEN FMul(vi.val, m.unit) ELSE 0,
                        IF vj.some THEN FMul(vj.val, m.unit) ELSE 0,
                        IF vk.some THEN FMul(vk.val, m.unit) ELSE 0))

\* C4: replayed from (0,0,0), every emitted G2/G3 that rewrites an input arc
\* has its centre (controlled point before the command plus the emitted
\* centre offset) at the input arc's centre in the cut plane.
C4_ArcCenterKept ==
    Done =>
        \A i \in Records :
            commands[i].kind = "Arc" =>
                coords_for_plane(ReplayedCenter(i), log[i].settings.plane)
                    = coords_for_plane(commands[i].center, log[i].settings.plane)

\* C5: replayed from (0,0,0), the controlled point is at the record's end
\* position after each emitted rapid, and its out-of-plane coordinate is that
\* of the record's end position after each emitted cut whose source carries
\* the out-of-plane axis.
C5_OutputIsAbsolute ==
    Done =>
        \A i \in Records :
            /\ commands[i].kind = "Rapid" =>
                   MachineAfter(OwnIndex(i)).pos = commands[i].end
            /\ ( /\ i \in CutRecords
                 /\ HasArg(commands[i].original, axis_3(log[i].settings.plane)) )
               => third_coord(MachineAfter(OwnIndex(i)).pos, log[i].settings.plane)
                      = third_coord(commands[i].end, log[i].settings.plane)

\* --------------------------------------------------------------- C6 .. C10
\* The input starts with G91 and every later command is a G1.
RelativeLinearProgram ==
    /\ Len(commands) >= 2
    /\ commands[1].original.mn = "G" /\ commands[1].original.num = 91
    /\ \A i \in 2..Len(commands) :
           commands[i].original.mn = "G" /\ commands[i].original.num = 1

\* The sum of the arguments of a letter over the first i input commands that
\* are G1, in millimeters.
RECURSIVE DisplacementSum(_, _)
DisplacementSum(letter, i) ==
    IF i = 0 THEN 0
    ELSE LET g == commands[i].original
             v == IF g.mn = "G" /\ g.num = 1 /\ HasArg(g, letter)
                  THEN value_for(g, letter).val ELSE 0
         IN DisplacementSum(letter, i - 1) + v

\* C6: no G91 is emitted, and for an input of G91 followed by G1 commands each
\* emitted G1 carries, in X and Y, the sum of the relative displacements so far
\* plus knife_offset along the record's tangent; G91, G1 X10 Y0 Z-1 F500 yields
\* the single command G1 X(10 + knife_offset) Y0 F500 Z-1.
C6_RelativeBecomesAbsolute ==
    Done =>
        /\ \A n \in 1..Len(fixed) : ~(fixed[n].mn = "G" /\ fixed[n].num = 91)
        /\ RelativeLinearProgram =>
               /\ \A i \in 2..Len(commands) :
                      LET g == EmittedCommand(i)
                          a == commands[i].angle
                          k == config.knife_offset
                      IN /\ g.mn = "G" /\ g.num = 1
                         /\ g.args[1] = <<"X", DisplacementSum("X", i)
                                + (IF a.some THEN FMul(Cos(a.val), k) ELSE 0)>>
                         /\ g.args[2] = <<"Y", DisplacementSum("Y", i)
                                + (IF a.some THEN FMul(Sin(a.val), k) ELSE 0)>>
               /\ ( /\ Len(commands) = 2
                    /\ commands[2].original.args
                         = <<<<"X", 10 * Scale>>, <<"Y", 0>>, <<"Z", 0 - Scale>>,
                             <<"F", 500 * Scale>>>> )
                  => fixed = << GCode("G", 1,
                                   << Word("X", 10 * Scale + config.knife_offset),
                                      Word("Y", 0),
                                      Word("F", 500 * Scale),
                                      Word("Z", 0 - Scale) >>) >>

\* G91 and two relative cuts that each move in the plane, under a knife offset.
C6_Witness ==
    /\ Done
    /\ RelativeLinearProgram
    /\ Len(commands) = 3
    /\ config.knife_offset > 0
    /\ \A i \in 2..3 :
           /\ commands[i].angle.some
           /\ coords_for_plane(commands[i].start, "XY")
                # coords_for_plane(commands[i].end, "XY")
    /\ commands[3].angle # commands[2].angle

\* C7: a record produces no output command only when its source is G91;
\* every other record classified Other is emitted once, unchanged.
C7_OnlyG91Dropped ==
    Done =>
        \A i \in Records :
            LET g == commands[i].original
            IN /\ log[i].out = <<>> => (g.mn = "G" /\ g.num = 91)
               /\ ( commands[i].kind = "Other" /\ ~(g.mn = "G" /\ g.num = 91) )
                  => log[i].out = <<g>>

\* The letters the rewriter recomputes in a plane, and the plane's
\* out-of-plane axis letter.
RecomputedLetters(plane) ==
    CASE plane = "XY" -> {"X", "Y", "I", "J", "F"}
      [] plane = "ZX" -> {"Z", "X", "K", "I", "F"}
      [] plane = "YZ" -> {"Y", "Z", "J", "K", "F"}

OutOfPlaneLetter(plane) ==
    CASE plane = "XY" -> "Z"
      [] plane = "ZX" -> "Y"
      [] plane = "YZ" -> "X"

\* The arguments of a command whose letter is the given one.
ArgsOf(g, letter) == { n \in 1..Len(g.args) : g.args[n][1] = letter }

\* Every argument of the source of record i outside the recomputed letters is
\* on the command emitted for the record with the same value, and that command
\* carries no other argument outside the recomputed letters.
PreservedOnOwnCommand(i) ==
    LET plane == log[i].settings.plane
        src == commands[i].original
        g == EmittedCommand(i)
    IN /\ \A p \in 1..Len(src.args) :
              src.args[p][1] \notin RecomputedLetters(plane) =>
                  /\ \E q \in 1..Len(g.args) : g.args[q] = src.args[p]
                  /\ Cardinality(ArgsOf(g, src.args[p][1]))
                       = Cardinality(ArgsOf(src, src.args[p][1]))
       /\ \A q \in 1..Len(g.args) :
              g.args[q][1] \notin RecomputedLetters(plane) =>
                  \E p \in 1..Len(src.args) : src.args[p] = g.args[q]

\* C8 as stated: the preserved arguments are on the record's own command and
\* no swivel command carries any of their letters.
C8_PreservedOnlyOnOwnCommand ==
    Done =>
        \A i \in CutRecords :
            /\ PreservedOnOwnCommand(i)
            /\ \A n \in 1..(Len(log[i].out) - 1) :
                   \A p \in 1..Len(commands[i].original.args) :
                       commands[i].original.args[p][1]
                           \notin RecomputedLetters(log[i].settings.plane)
                       => ~HasArg(log[i].out[n], commands[i].original.args[p][1])

\* C8: the preserved arguments are on the record's own command with the same
\* value, and the swivel commands before it carry, outside the recomputed
\* letters, only the out-of-plane axis letter (on the lift and the plunge).
C8_ArgumentsPreserved ==
    Done =>
        \A i \in CutRecords :
            /\ PreservedOnOwnCommand(i)
            /\ \A n \in 1..(Len(log[i].out) - 1) :
                   \A q \in 1..Len(log[i].out[n].args) :
                       log[i].out[n].args[q][1]
                           \in RecomputedLetters(log[i].settings.plane)
                               \cup {OutOfPlaneLetter(log[i].settings.plane)}

\* A swivel before a cut whose source carries the out-of-plane axis letter.
C8_Witness ==
    /\ Done
    /\ \E i \in CutRecords :
           /\ SwivelEmitted(i)
           /\ HasArg(commands[i].original, OutOfPlaneLetter(log[i].settings.plane))
           /\ HasArg(log[i].out[1], OutOfPlaneLetter(log[i].settings.plane))

\* C9: the command emitted for a cut carries exactly one F when its source
\* carries F or a swivel was emitted before it, and no F otherwise; no swivel
\* command but the lift carries F, and no restoring feedrate is left pending.
C9_FeedrateOnce ==
    Done =>
        \A i \in CutRecords :
            /\ Cardinality(ArgsOf(EmittedCommand(i), "F"))
                 = (IF HasArg(commands[i].original, "F") \/ SwivelEmitted(i)
                    THEN 1 ELSE 0)
            /\ SwivelEmitted(i) =>
                   /\ Cardinality(ArgsOf(log[i].out[1], "F")) = 1
                   /\ ~HasArg(log[i].out[2], "F")
                   /\ ~HasArg(log[i].out[3], "F")
            /\ ~log[i].state.next_feedrate.some

\* A rewrite with a swivel before a cut without F, a cut with F and no swivel,
\* and a cut with neither.
C9_Witness ==
    /\ Done
    /\ \E i \in CutRecords :
           SwivelEmitted(i) /\ ~HasArg(commands[i].original, "F")
    /\ \E i \in CutRecords :
           ~SwivelEmitted(i) /\ HasArg(commands[i].original, "F")
    /\ \E i \in CutRecords :
           ~SwivelEmitted(i) /\ ~HasArg(commands[i].original, "F")

\* C10: when a swivel precedes a cut whose source carries no F, the F on the
\* emitted cut is the modal feedrate divided by the unit factor, and it is the
\* F of the cut before it when that cut carries one.
C10_RestoredFeedrate ==
    Done =>
        \A i \in CutRecords :
            ( SwivelEmitted(i) /\ ~HasArg(commands[i].original, "F") ) =>
                LET f == value_for(EmittedCommand(i), "F")
                    unit == IF log[i].settings.unit = "Inches"
                            THEN (254 * Scale) \div 100 ELSE Scale
                IN /\ f.some
                   /\ f.val = FDiv(log[i].settings.feedrate, unit)
                   /\ ( /\ i > 1
                        /\ i - 1 \in CutRecords
                        /\ HasArg(commands[i - 1].original, "F") )
                      => f.val = value_for(commands[i - 1].original, "F").val

\* -------------------------------------------------------------- C11 .. C19
\* The input program the path was built from.
InputProgram == [i \in 1..Len(commands) |-> commands[i].original]

SpatialLetters == {"X", "Y", "Z", "I", "J", "K"}

\* An inch command written in millimeters: G20 becomes G21 and every
\* coordinate literal is multiplied by 2.54.
InMillimeters(g) ==
    IF g.mn = "G" /\ g.num = 20 THEN GCode("G", 21, g.args)
    ELSE [g EXCEPT !.args =
              [q \in 1..Len(g.args) |->
                  IF g.args[q][1] \in SpatialLetters
                  THEN <<g.args[q][1], FMul(g.args[q][2], (254 * Scale) \div 100)>>
                  ELSE g.args[q]]]

\* The millimeter program of the inch input, and its rewrite.
MillimeterProgram == [i \in 1..Len(commands) |-> InMillimeters(InputProgram[i])]

MillimeterRun == to_fixed_gcode(from_gcode(MillimeterProgram), config)

\* An input that selects inches first and then only moves.
InchProgram ==
    /\ Len(commands) >= 2
    /\ InputProgram[1] = GCode("G", 20, <<>>)
    /\ \A i \in 2..Len(commands) :
           InputProgram[i].mn = "G" /\ InputProgram[i].num \in {0, 1, 2, 3}

\* C11: for an inch program, every spatial-axis value of the emitted commands,
\* multiplied by 2.54, is the value at the same place in the rewrite of the
\* millimeter program up to rounding (3/Scale), for cut endpoints, centre
\* offsets and swivel commands.
C11_UnitRoundTrip ==
    ( Done /\ InchProgram ) =>
        LET mm == MillimeterRun
        IN /\ Len(mm) = Len(fixed)
           /\ \A n \in 1..Len(fixed) :
                  /\ Len(mm[n].args) = Len(fixed[n].args)
                  /\ mm[n].num = (IF fixed[n].num = 20 THEN 21 ELSE fixed[n].num)
                  /\ \A q \in 1..Len(fixed[n].args) :
                         /\ mm[n].args[q][1] = fixed[n].args[q][1]
                         /\ fixed[n].args[q][1] \in SpatialLetters =>
                                Abs(FMul(fixed[n].args[q][2], (254 * Scale) \div 100)
                                      - mm[n].args[q][2]) <= 3

\* C12: the first record starts at (0,0,0) and every later record starts
\* where the record before it ends: at the origin after a Home, at the end
\* (for an Other, the pos) of any other record.
C12_ChainContinuity ==
    /\ Len(commands) >= 1 => commands[1].start = [x |-> 0, y |-> 0, z |-> 0]
    /\ \A i \in 1..(Len(commands) - 1) :
           commands[i + 1].start =
               (IF commands[i].kind = "Home"
                THEN [x |-> 0, y |-> 0, z |-> 0]
                ELSE commands[i].end)

\* A path with a Home reached away from the origin and a cut after it.
C12_Witness ==
    /\ Len(commands) = 3
    /\ commands[1].end # [x |-> 0, y |-> 0, z |-> 0]
    /\ commands[2].kind = "Home"
    /\ commands[2].start = commands[1].end
    /\ commands[3].kind \in {"Linear", "Arc"}
    /\ commands[3].end # commands[3].start

\* The plane selected by the G17/G18/G19 commands before input command i.
RECURSIVE PlaneBefore(_)
PlaneBefore(i) ==
    IF i = 1 THEN "XY"
    ELSE LET g == InputProgram[i - 1]
         IN IF g.mn = "G" /\ g.num = 17 THEN "XY"
            ELSE IF g.mn = "G" /\ g.num = 18 THEN "ZX"
            ELSE IF g.mn = "G" /\ g.num = 19 THEN "YZ"
            ELSE PlaneBefore(i - 1)

\* The distance of two points within a plane.
InPlaneDistance(a, b, plane) ==
    LET d == [x |-> IF plane = "YZ" THEN 0 ELSE a.x - b.x,
              y |-> IF plane = "ZX" THEN 0 ELSE a.y - b.y,
              z |-> IF plane = "XY" THEN 0 ELSE a.z - b.z]
    IN Sqrt(d.x * d.x + d.y * d.y + d.z * d.z)

\* C13: for every Arc record whose end is off the center in the cut plane,
\* the in-plane distance from center to end is the in-plane distance from
\* center to start, up to rounding (2/Scale).
C13_ArcEndOnCircle ==
    \A i \in 1..Len(commands) :
        ( /\ commands[i].kind = "Arc"
          /\ InPlaneDistance(commands[i].center, commands[i].end, PlaneBefore(i)) > 0 )
        =>
            Abs(InPlaneDistance(commands[i].center, commands[i].end, PlaneBefore(i))
                  - InPlaneDistance(commands[i].center, commands[i].start, PlaneBefore(i)))
                <= 2

\* The rewrite of the rewriter's own output with knife_offset = 0 and
\* sharp_angle_threshold = pi.
SecondConfig ==
    DragknifeConfig(0, config.lift_config, PI, config.swivel_feedrate)

SecondRun == to_fixed_gcode(from_gcode(fixed), SecondConfig)

NonF(args) == SelectSeq(args, LAMBDA a : a[1] # "F")

OnlyF(args) == SelectSeq(args, LAMBDA a : a[1] = "F")

\* Two argument sequences with the same letters in the same order and the
\* same values up to rounding (2/Scale).
SameArguments(a, b) ==
    /\ Len(a) = Len(b)
    /\ \A q \in 1..Len(a) :
           /\ a[q][1] = b[q][1]
           /\ Abs(a[q][2] - b[q][2]) <= 2

\* The same command up to the position of F among the arguments.
SameCommand(g, h) ==
    /\ g.mn = h.mn /\ g.num = h.num
    /\ SameArguments(NonF(g.args), NonF(h.args))
    /\ SameArguments(OnlyF(g.args), OnlyF(h.args))

\* An input with no arc and no command numbered 18 or G20: both passes stay
\* in the XY plane and the classifier in millimeters.
StraightProgram ==
    \A i \in 1..Len(commands) :
        /\ commands[i].kind # "Arc"
        /\ InputProgram[i].num # 18
        /\ ~(InputProgram[i].mn = "G" /\ InputProgram[i].num = 20)

IsDepthMove(g, plane) ==
    /\ g.mn = "G" /\ g.num = 1
    /\ \A q \in 1..Len(g.args) :
           g.args[q][1] \notin (RecomputedLetters(plane) \ {"F"})

\* The second run's command for a depth move: the same command with the two
\* in-plane coordinates of the controlled point (up to rounding) written in
\* front.
GainsInPlaneAxes(g, h, pos, plane) ==
    /\ h.mn = "G" /\ h.num = 1
    /\ Len(NonF(h.args)) = Len(NonF(g.args)) + 2
    /\ SameArguments(SubSeq(h.args, 1, 2),
                     << <<axis_1(plane), coords_for_plane(pos, plane)[1]>>,
                        <<axis_2(plane), coords_for_plane(pos, plane)[2]>> >>)
    /\ SameArguments(NonF(g.args), SubSeq(NonF(h.args), 3, Len(NonF(h.args))))
    /\ SameArguments(OnlyF(g.args), OnlyF(h.args))

NoInPlaneDisplacement(i) ==
    InPlaneDistance(commands[i].start, commands[i].end, PlaneBefore(i)) = 0

\* C15 as stated: a Linear record's angle is None exactly when it has no
\* in-plane displacement.
C15_AngleNoneIffZeroLength ==
    \A i \in 1..Len(commands) :
        commands[i].kind = "Linear" =>
            (~commands[i].angle.some <=> NoInPlaneDisplacement(i))

\* C15: a Linear record with an in-plane displacement has the angle of that
\* displacement; one without has the end angle of the record before it, which
\* is None only when there is no heading to inherit.
C15_AngleOrInherited ==
    \A i \in 1..Len(commands) :
        commands[i].kind = "Linear" =>
            /\ ~NoInPlaneDisplacement(i) =>
                   LET s == coords_for_plane(commands[i].start, PlaneBefore(i))
                       e == coords_for_plane(commands[i].end, PlaneBefore(i))
                   IN commands[i].angle = [some |-> TRUE,
                                           val |-> Atan2(e[2] - s[2], e[1] - s[1])]
            /\ NoInPlaneDisplacement(i) => commands[i].angle = PrevEndAngle(i)
            /\ ~commands[i].angle.some => NoInPlaneDisplacement(i)

\* A path with a depth move that has no heading to inherit and one that
\* inherits the heading of the cut before it.
C15_Witness ==
    /\ \E i \in 1..Len(commands) :
           /\ commands[i].kind = "Linear"
           /\ NoInPlaneDisplacement(i)
           /\ ~commands[i].angle.some
    /\ \E i \in 2..Len(commands) :
           /\ commands[i].kind = "Linear"
           /\ NoInPlaneDisplacement(i)
           /\ commands[i].angle.some
           /\ commands[i - 1].kind = "Linear"
           /\ ~NoInPlaneDisplacement(i - 1)

\* The unit selected by the G20/G21 commands before input command i.
RECURSIVE UnitBefore(_)
UnitBefore(i) ==
    IF i = 1 THEN "Millimeters"
    ELSE LET g == InputProgram[i - 1]
         IN IF g.mn = "G" /\ g.num = 20 THEN "Inches"
            ELSE IF g.mn = "G" /\ g.num = 21 THEN "Millimeters"
            ELSE UnitBefore(i - 1)

\* C16: the classifier ends with the plane and the unit that the G17/G18/G19
\* and G20/G21 commands of the input select, and at every record the rewriter
\* holds the plane and the unit those commands select before the record.
C16_PassesAgreeOnModalState ==
    /\ path_settings.plane = PlaneBefore(Len(commands) + 1)
    /\ path_settings.unit = UnitBefore(Len(commands) + 1)
    /\ Done =>
           \A i \in Records :
               /\ log[i].settings.plane = PlaneBefore(i)
               /\ log[i].settings.unit = UnitBefore(i)

\* The F most recently written on a motion command (G0..G3) before input
\* command i; the default feedrate when none was written.
RECURSIVE LastWrittenF(_)
LastWrittenF(i) ==
    IF i = 1 THEN DefaultFeedrate * Scale
    ELSE LET g == InputProgram[i - 1]
         IN IF g.mn = "G" /\ g.num \in 0..3 /\ HasArg(g, "F")
            THEN value_for(g, "F").val
            ELSE LastWrittenF(i - 1)

\* C17: after the rewrite of a Rapid, Linear or Arc record whose source
\* carries F the modal feedrate is F times the unit factor, and in a
\* millimeter program the F restored after a swivel is the F most recently
\* written on a motion command.
C17_MotionSetsFeedrate ==
    Done =>
        \A i \in Records :
            /\ ( /\ commands[i].kind \in {"Rapid", "Linear", "Arc"}
                 /\ HasArg(commands[i].original, "F") )
               => log[i].settings_after.feedrate
                    = FMul(value_for(commands[i].original, "F").val,
                           IF log[i].settings.unit = "Inches"
                           THEN (254 * Scale) \div 100 ELSE Scale)
            /\ ( /\ i \in CutRecords
                 /\ SwivelEmitted(i)
                 /\ ~HasArg(commands[i].original, "F")
                 /\ log[i].settings.unit = "Millimeters" )
               => value_for(EmittedCommand(i), "F") = [some |-> TRUE, val |-> LastWrittenF(i)]

\* C18: next_feedrate is None when the rewriter starts and when it finishes
\* each record, so no Rapid, Home or Other record is rewritten with a restore
\* pending and none is pending at the end; a swivel's restore is on the
\* command of the same record.
C18_NoPendingFeedrate ==
    Done =>
        /\ \A i \in Records :
               /\ ~log[i].state_before.next_feedrate.some
               /\ ~log[i].state.next_feedrate.some
               /\ (i \in CutRecords /\ SwivelEmitted(i))
                      => HasArg(EmittedCommand(i), "F")
               /\ i \notin CutRecords => Len(log[i].out) <= 1
        /\ Len(log) = Len(commands)

\* A rewrite with a swivel before a cut without F, followed by a record
\* that is no cut.
C18_Witness ==
    /\ Done
    /\ \E i \in CutRecords :
           /\ SwivelEmitted(i)
           /\ ~HasArg(commands[i].original, "F")
           /\ i < Len(commands)
           /\ commands[i + 1].kind \in {"Rapid", "Home", "Other"}

\* The Linear records with no in-plane displacement.
ZeroLengthCuts ==
    { i \in Records : commands[i].kind = "Linear" /\ NoInPlaneDisplacement(i) }

\* C19: a G1 with no in-plane displacement has the end angle of the record
\* before it, gets no swivel, is emitted at its end position plus knife_offset
\* along that angle (at its end position when the angle is undefined) and
\* hands the angle on: a cut after it gets a swivel exactly when its start
\* angle makes a sharp corner with the end angle of the record before the
\* zero-length move.
C19_ZeroLengthInheritsHeading ==
    Done =>
        \A i \in ZeroLengthCuts :
            LET a == PrevEndAngle(i)
                plane == log[i].settings.plane
                end == coords_for_plane(commands[i].end, plane)
                g == EmittedCommand(i)
                k == config.knife_offset
            IN /\ commands[i].angle = a
               /\ log[i].out = <<g>>
               /\ g.args[1] = <<axis_1(plane),
                                end[1] + (IF a.some THEN FMul(Cos(a.val), k) ELSE 0)>>
               /\ g.args[2] = <<axis_2(plane),
                                end[2] + (IF a.some THEN FMul(Sin(a.val), k) ELSE 0)>>
               /\ ( i < Len(commands) /\ i + 1 \in CutRecords ) =>
                      LET n == start_angle(commands[i + 1])
                      IN /\ log[i + 1].previous_angle = a
                         /\ SwivelEmitted(i + 1) <=>
                                /\ a.some
                                /\ n.some
                                /\ Abs(SignedDelta(a.val, n.val))
                                     > config.sharp_angle_threshold

\* A cut, a depth move that inherits its heading and is emitted with the
\* offset, and a cut that turns sharply from the first one.
C19_Witness ==
    /\ Done
    /\ config.knife_offset > 0
    /\ Len(commands) = 3
    /\ commands[1].kind = "Linear" /\ commands[1].angle.some
    /\ 2 \in ZeroLengthCuts
    /\ commands[2].angle = commands[1].angle
    /\ commands[2].end # commands[2].start
    /\ commands[3].kind = "Linear"
    /\ SwivelEmitted(3)

====
